---------------------------- MODULE Spec2Model ----------------------------
(***************************************************************************)
(* A model of the notification and admin REST resources of the focalboard  *)
(* fork: the user_notifications table and its six store functions, the     *)
(* application layer that inserts and then broadcasts, the REST handlers,  *)
(* the admin user handlers and the local permission service.               *)
(*                                                                         *)
(* Go strings that are identifiers are modelled as naturals: EmptyID (0)   *)
(* is the empty string "", every other number is a non-empty identifier.   *)
(***************************************************************************)
EXTENDS Integers, Sequences, FiniteSets, TLC

\* ------------------------------------------------------------------ bounds
\* MaxIDs: how many distinct ids utils.NewID can return.
\* MaxRegistrations: how many accounts are registered in a run.
MaxIDs == 2
MaxRegistrations == 2
\* MaxKept stands for the 50 of the web client: the length the notifications
\* slice cuts its list to and the limit the bell passes to fetchNotifications.
MaxKept == 2
\* How many notifications addNotification creates in the web client.
MaxLocals == 1

EmptyID == 0
Users == {1, 2}
NotifIDs == 1..MaxIDs
\* The instants of the clock: an earlier and a later one, so that a timestamp
\* that was set again differs from one that was left alone.
Instants == {0, 1}

VARIABLES
    rows,       \* the user_notifications table: a set of row records
    now,        \* utils.GetMillis(): the wall clock, in milliseconds
    conns,      \* the websocket registry: the users with a live connection
    events,     \* the data-access and broadcast calls of the handler that ran last, in call order
    resp,       \* the response of the handler that ran last
    unpushed,   \* history: the ids of the stored rows whose broadcast reached no live connection
    users,          \* the users table: a set of user records
    firstUserID,    \* localpermissions.Service.firstUserID
    firstUserDone,  \* localpermissions.Service.firstUserDone
    puts,           \* the PUT /admin/users/{userID} requests running concurrently, by goroutine
    checks,         \* the HasPermissionTo calls running concurrently, by goroutine, with their history
    client,         \* the web client of one browser: the notifications slice, me, and its requests in flight
    card,           \* the card shown in the web client: its person property and the members assigned
    boardCheck      \* one call of HasPermissionToBoard: its arguments, the membership lookup, the result

vars ==
    <<rows, now, conns, events, resp, unpushed, users, firstUserID, firstUserDone, puts,
      checks, client, card, boardCheck>>

\* What the notification handlers leave alone, and what the admin handlers do.
\* otherVars: what neither the REST handlers nor the store functions touch.
otherVars == <<checks, client, card, boardCheck>>
adminVars == <<users, firstUserID, firstUserDone, puts, otherVars>>
notifVars == <<rows, conns, unpushed>>

\* ------------------------------------------------------- responses, events
NoResp ==
    [op |-> "none", user |-> EmptyID, arg |-> 0, err |-> "none",
     created |-> {}, list |-> <<>>, granted |-> FALSE, users |-> {}]

Response(op, user, arg, err) ==
    [NoResp EXCEPT !.op = op, !.user = user, !.arg = arg, !.err = err]

\* One call made by a handler: ev names it, id and to are its arguments, ok is
\* whether it succeeded (for a broadcast: whether a live connection got the
\* message), out is the outcome of a broadcast's write.
Event(ev, id, to, ok, out) == [ev |-> ev, id |-> id, to |-> to, ok |-> ok, out |-> out]

\* The goroutines that serve PUT /admin/users/{userID} side by side, and the
\* locals of one that has not started: pc is the position in the handler, user
\* the record GetUser returned (none yet).
Slots == {1, 2}
IdlePut ==
    [pc |-> "idle", session |-> EmptyID, userID |-> EmptyID,
     updateData |-> [username |-> "", email |-> "", password |-> ""], user |-> {}]

\* A goroutine that is not inside HasPermissionTo, and the service before any
\* call: lookups counts the calls of store.GetAllUsers, returned says whether a
\* manage-system check has returned.
IdleCheck == [pc |-> "idle", userID |-> EmptyID, found |-> {}]
NoChecks == [slots |-> [slot \in Slots |-> IdleCheck], lookups |-> 0, returned |-> FALSE]

\* initialState of the notifications slice, with no user loaded (me = null is
\* EmptyID, currentToast = null is the empty set), nothing pushed on the
\* websocket and no request in flight. locals counts the ids addNotification made.
InitialClient ==
    [notifications |-> <<>>, showToast |-> FALSE, currentToast |-> {},
     currentUserId |-> EmptyID, loading |-> FALSE,
     me |-> EmptyID, inbox |-> <<>>, locals |-> 0,
     markAll |-> "idle", fetch |-> "idle", fetched |-> <<>>]

\* A board without a person property and without users loaded, and its card with
\* nobody assigned.
NoCard == [property |-> "none", members |-> <<>>, boardUsers |-> {}]

\* No call of HasPermissionToBoard.
NoBoardCheck ==
    [pc |-> "none", userID |-> EmptyID, boardID |-> EmptyID, permission |-> "",
     lookup |-> "not_found", minimumRole |-> "", schemes |-> {}, granted |-> FALSE]

\* ---------------------------------------------------- model.UserNotification
UserNotification(id, target, actor, read, createAt, updateAt) ==
    [id |-> id, target_user_id |-> target, actor_user_id |-> actor,
     actor_name |-> "actor", type |-> "assigned", card_id |-> "card",
     card_title |-> "title", board_id |-> "board", is_read |-> read,
     create_at |-> createAt, update_at |-> updateAt]

\* The request bodies of POST /notifications that json.Unmarshal accepts: every
\* field of the struct is taken from the body, the id and the timestamps included.
Bodies ==
    {UserNotification(id, target, actor, read, 1, 1) :
        id \in {EmptyID, 1}, target \in Users, actor \in {1},
        read \in BOOLEAN}

\* ------------------------------------------------ sqlstore: user_notifications
\* Mutant: the insert keeps the id of the request body instead of a new one.
createUserNotification_KeepsBodyID(table, notification, newID, t, dbOk) ==
    LET n == [notification EXCEPT !.create_at = t, !.update_at = t]
        ok == dbOk /\ ~(\E r \in table : r.id = n.id)
    IN  [table |-> IF ok THEN table \cup {n} ELSE table,
         notification |-> n,
         err |-> ~ok]

\* INSERT INTO user_notifications. The id and both timestamps are overwritten
\* before the insert; PRIMARY KEY (id) rejects an id that is already stored;
\* dbOk = FALSE is a failure of query.Exec() for any other reason.
createUserNotification(table, notification, newID, t, dbOk) ==
    LET n == [notification EXCEPT !.id = newID, !.create_at = t, !.update_at = t]
        ok == dbOk /\ ~(\E r \in table : r.id = n.id)
    IN  [table |-> IF ok THEN table \cup {n} ELSE table,
         notification |-> n,
         err |-> ~ok]

\* The rows WHERE target_user_id = userID.
RowsOf(table, userID) == {r \in table : r.target_user_id = userID}

\* ORDER BY create_at DESC: every order of the set S with create_at not
\* increasing (SQL leaves the order of rows with equal create_at open).
OrderByCreateAtDesc(S) ==
    {s \in [1..Cardinality(S) -> S] :
        /\ \A i, j \in 1..Cardinality(S) : i # j => s[i] # s[j]
        /\ \A i, j \in 1..Cardinality(S) : i < j => s[i].create_at >= s[j].create_at}

\* Mutant: the limit is exclusive, one row short.
Limit_Exclusive(s, limit) ==
    IF limit > 0 /\ limit <= Len(s) THEN SubSeq(s, 1, limit - 1) ELSE s

\* LIMIT is applied only when limit > 0.
Limit(s, limit) ==
    IF limit > 0 /\ limit < Len(s) THEN SubSeq(s, 1, limit) ELSE s

\* SELECT ... WHERE target_user_id = userID ORDER BY create_at DESC [LIMIT limit]:
\* the set of result lists the query can return.
getUserNotifications(table, userID, limit) ==
    {Limit(s, limit) : s \in OrderByCreateAtDesc(RowsOf(table, userID))}

\* Mutant: the count is not restricted to the unread rows.
getUnreadNotificationCount_AllRows(table, userID) ==
    Cardinality(RowsOf(table, userID))

\* SELECT COUNT(*) WHERE target_user_id = userID AND is_read = false.
getUnreadNotificationCount(table, userID) ==
    Cardinality({r \in RowsOf(table, userID) : ~r.is_read})

\* Mutant: the update is scoped by id alone, not by target_user_id.
markNotificationAsRead_AnyOwner(table, notificationID, userID, t, dbOk) ==
    IF ~dbOk THEN [table |-> table, err |-> TRUE]
    ELSE [table |-> {IF r.id = notificationID
                      THEN [r EXCEPT !.is_read = TRUE, !.update_at = t]
                      ELSE r : r \in table},
          err |-> FALSE]

\* Mutant: the update toggles is_read instead of setting it.
markNotificationAsRead_Toggle(table, notificationID, userID, t, dbOk) ==
    IF ~dbOk THEN [table |-> table, err |-> TRUE]
    ELSE [table |-> {IF r.id = notificationID /\ r.target_user_id = userID
                      THEN [r EXCEPT !.is_read = ~r.is_read, !.update_at = t]
                      ELSE r : r \in table},
          err |-> FALSE]

\* Mutant: zero affected rows is turned into an error.
markNotificationAsRead_ErrOnZeroRows(table, notificationID, userID, t, dbOk) ==
    IF ~dbOk \/ ~(\E r \in table : r.id = notificationID /\ r.target_user_id = userID /\ ~r.is_read)
    THEN [table |-> table, err |-> TRUE]
    ELSE [table |-> {IF r.id = notificationID /\ r.target_user_id = userID
                      THEN [r EXCEPT !.is_read = TRUE, !.update_at = t]
                      ELSE r : r \in table},
          err |-> FALSE]

\* UPDATE SET is_read = true, update_at = now WHERE id = ... AND target_user_id = ...
\* Zero affected rows is logged and is no error.
markNotificationAsRead(table, notificationID, userID, t, dbOk) ==
    IF ~dbOk THEN [table |-> table, err |-> TRUE]
    ELSE [table |-> {IF r.id = notificationID /\ r.target_user_id = userID
                      THEN [r EXCEPT !.is_read = TRUE, !.update_at = t]
                      ELSE r : r \in table},
          err |-> FALSE]

\* Mutant: the update is not scoped by target_user_id.
markAllNotificationsAsRead_AnyOwner(table, userID, t, dbOk) ==
    IF ~dbOk THEN [table |-> table, err |-> TRUE]
    ELSE [table |-> {IF ~r.is_read
                      THEN [r EXCEPT !.is_read = TRUE, !.update_at = t]
                      ELSE r : r \in table},
          err |-> FALSE]

\* UPDATE SET is_read = true, update_at = now WHERE target_user_id = ... AND is_read = false
markAllNotificationsAsRead(table, userID, t, dbOk) ==
    IF ~dbOk THEN [table |-> table, err |-> TRUE]
    ELSE [table |-> {IF r.target_user_id = userID /\ ~r.is_read
                      THEN [r EXCEPT !.is_read = TRUE, !.update_at = t]
                      ELSE r : r \in table},
          err |-> FALSE]

\* Mutant: the delete is not scoped by target_user_id.
deleteUserNotification_AnyOwner(table, notificationID, userID, dbOk) ==
    IF ~dbOk THEN [table |-> table, err |-> TRUE]
    ELSE [table |-> {r \in table : r.id # notificationID}, err |-> FALSE]

\* DELETE WHERE id = ... AND target_user_id = ...
deleteUserNotification(table, notificationID, userID, dbOk) ==
    IF ~dbOk THEN [table |-> table, err |-> TRUE]
    ELSE [table |-> {r \in table :
                        ~(r.id = notificationID /\ r.target_user_id = userID)},
          err |-> FALSE]

\* ----------------------------------------------------------- websocket adapter
\* wsAdapter.BroadcastUserNotification(userID, notification): a write to each live
\* connection of userID, not acknowledged; it returns nothing. outcome is what
\* happens to the write.
BroadcastOutcomes == {"delivered", "dropped", "failed"}

BroadcastUserNotification(registry, userID, notification, outcome) ==
    Event("broadcast", notification.id, userID,
          userID \in registry /\ outcome = "delivered",
          IF userID \in registry THEN outcome ELSE "offline")

\* --------------------------------------------------------------------- app
\* Mutant: the broadcast is issued before the insert, whatever the insert returns.
CreateAndBroadcastNotification_BroadcastFirst(table, registry, notification, newID, t, dbOk, outcome) ==
    LET c == createUserNotification(table, notification, newID, t, dbOk)
        insert == Event("insert", c.notification.id, c.notification.target_user_id, ~c.err, "")
        push == BroadcastUserNotification(registry, c.notification.target_user_id,
                                          c.notification, outcome)
    IN  [table |-> c.table, created |-> IF c.err THEN {} ELSE {c.notification},
         err |-> c.err, events |-> <<push, insert>>]

\* Mutant: a failed broadcast write undoes the insert and is returned as an error.
CreateAndBroadcastNotification_FailsWithBroadcast(table, registry, notification, newID, t, dbOk, outcome) ==
    LET c == createUserNotification(table, notification, newID, t, dbOk)
        insert == Event("insert", c.notification.id, c.notification.target_user_id, ~c.err, "")
        push == BroadcastUserNotification(registry, c.notification.target_user_id,
                                          c.notification, outcome)
    IN  IF c.err
        THEN [table |-> c.table, created |-> {}, err |-> TRUE, events |-> <<insert>>]
        ELSE IF push.out = "failed"
        THEN [table |-> table, created |-> {}, err |-> TRUE, events |-> <<insert, push>>]
        ELSE [table |-> c.table, created |-> {c.notification}, err |-> FALSE,
              events |-> <<insert, push>>]

\* App.CreateAndBroadcastNotification: insert, return the error if there is one,
\* otherwise broadcast to notification.TargetUserID and return the created row.
CreateAndBroadcastNotification(table, registry, notification, newID, t, dbOk, outcome) ==
    LET c == createUserNotification(table, notification, newID, t, dbOk)
        insert == Event("insert", c.notification.id, c.notification.target_user_id, ~c.err, "")
    IN  IF c.err
        THEN [table |-> c.table, created |-> {}, err |-> TRUE, events |-> <<insert>>]
        ELSE [table |-> c.table, created |-> {c.notification}, err |-> FALSE,
              events |-> <<insert,
                           BroadcastUserNotification(registry, c.notification.target_user_id,
                                                     c.notification, outcome)>>]

\* ------------------------------------------------------ api: /notifications
\* limit := 50; a limit query parameter that strconv.Atoi accepts replaces it.
DefaultLimit == 50
QueryLimits ==
    {[kind |-> "absent", value |-> 0], [kind |-> "garbage", value |-> 0]}
        \cup {[kind |-> "int", value |-> v] : v \in {-1, 0, 1, MaxIDs}}

ParseLimit(q) == IF q.kind = "int" THEN q.value ELSE DefaultLimit

\* GET /notifications
handleGetNotifications(caller, q, dbOk) ==
    /\ IF dbOk
       THEN \E result \in getUserNotifications(rows, caller, ParseLimit(q)) :
                resp' = [Response("getNotifications", caller, ParseLimit(q), "none")
                            EXCEPT !.list = result]
       ELSE resp' = Response("getNotifications", caller, ParseLimit(q), "store")
    /\ events' = <<Event("select", EmptyID, caller, dbOk, q.kind)>>
    /\ UNCHANGED <<rows, now, conns, unpushed, adminVars>>

\* GET /notifications/unread-count
handleGetUnreadCount(caller, dbOk) ==
    /\ resp' = IF dbOk
               THEN Response("getUnreadCount", caller,
                             getUnreadNotificationCount(rows, caller), "none")
               ELSE Response("getUnreadCount", caller, 0, "store")
    /\ events' = <<Event("count", EmptyID, caller, dbOk, "")>>
    /\ UNCHANGED <<rows, now, conns, unpushed, adminVars>>

\* POST /notifications: read and parse the body (wellFormed = FALSE is a body
\* json.Unmarshal rejects), create and broadcast, answer with the created row.
handleCreateNotification(caller, wellFormed, body, newID, dbOk, outcome) ==
    /\ IF ~wellFormed
       THEN /\ rows' = rows
            /\ events' = <<>>
            /\ resp' = Response("createNotification", caller, EmptyID, "json")
            /\ unpushed' = unpushed
       ELSE LET c == CreateAndBroadcastNotification(rows, conns, body, newID, now,
                                                    dbOk, outcome)
            IN  /\ rows' = c.table
                /\ events' = c.events
                /\ resp' = IF c.err
                           THEN Response("createNotification", caller, body.id, "store")
                           ELSE [Response("createNotification", caller, body.id, "none")
                                    EXCEPT !.created = c.created]
                /\ unpushed' = unpushed \cup
                        {c.events[i].id : i \in {j \in 1..Len(c.events) :
                            c.events[j].ev = "broadcast" /\ ~c.events[j].ok}}
    /\ UNCHANGED <<now, conns, adminVars>>

\* POST /notifications/{notificationID}/read
handleMarkAsRead(caller, notificationID, dbOk) ==
    LET m == markNotificationAsRead(rows, notificationID, caller, now, dbOk)
    IN  /\ rows' = m.table
        /\ events' = <<Event("update", notificationID, caller, dbOk, "")>>
        /\ resp' = Response("markNotificationAsRead", caller, notificationID,
                            IF m.err THEN "store" ELSE "none")
        /\ UNCHANGED <<now, conns, unpushed, adminVars>>

\* POST /notifications/read-all
handleMarkAllAsRead(caller, dbOk) ==
    LET m == markAllNotificationsAsRead(rows, caller, now, dbOk)
    IN  /\ rows' = m.table
        /\ events' = <<Event("updateAll", EmptyID, caller, dbOk, "")>>
        /\ resp' = Response("markAllNotificationsAsRead", caller, 0,
                            IF m.err THEN "store" ELSE "none")
        /\ UNCHANGED <<now, conns, unpushed, adminVars>>

\* DELETE /notifications/{notificationID}
handleDeleteNotification(caller, notificationID, dbOk) ==
    LET d == deleteUserNotification(rows, notificationID, caller, dbOk)
    IN  /\ rows' = d.table
        /\ events' = <<Event("delete", notificationID, caller, dbOk, "")>>
        /\ resp' = Response("deleteNotification", caller, notificationID,
                            IF d.err THEN "store" ELSE "none")
        /\ unpushed' = unpushed \cap {r.id : r \in d.table}
        /\ UNCHANGED <<now, conns, adminVars>>

\* ------------------------------------------------------------- environment
\* The clock advances.
Tick ==
    /\ now + 1 \in Instants
    /\ now' = now + 1
    /\ events' = <<>>
    /\ resp' = NoResp
    /\ UNCHANGED <<rows, conns, unpushed, adminVars>>

\* A client of user u opens its websocket; the server pushes nothing on connect.
Connect(u) ==
    /\ u \notin conns
    /\ conns' = conns \cup {u}
    /\ events' = <<>>
    /\ resp' = NoResp
    /\ UNCHANGED <<rows, now, unpushed, adminVars>>

\* The websocket of user u closes.
Disconnect(u) ==
    /\ u \in conns
    /\ conns' = conns \ {u}
    /\ events' = <<>>
    /\ resp' = NoResp
    /\ UNCHANGED <<rows, now, unpushed, adminVars>>

Init ==
    /\ rows = {}
    /\ now = 0
    /\ conns = {}
    /\ events = <<>>
    /\ resp = NoResp
    /\ unpushed = {}
    /\ users = {}
    /\ firstUserID = EmptyID
    /\ firstUserDone = FALSE
    /\ puts = [slot \in Slots |-> IdlePut]
    /\ checks = NoChecks
    /\ client = InitialClient
    /\ card = NoCard
    /\ boardCheck = NoBoardCheck

GetNotifications(limits) == \E u \in Users, q \in limits, dbOk \in BOOLEAN :
    handleGetNotifications(u, q, dbOk)
GetUnreadCount == \E u \in Users, dbOk \in BOOLEAN : handleGetUnreadCount(u, dbOk)
CreateNotification(bodies, outcomes) ==
    \E u \in Users, wellFormed \in BOOLEAN :
        \E body \in IF wellFormed THEN bodies ELSE {CHOOSE b \in bodies : TRUE} :
            \E newID \in IF wellFormed THEN NotifIDs ELSE {1},
               dbOk \in IF wellFormed THEN BOOLEAN ELSE {TRUE} :
                \E outcome \in IF wellFormed /\ dbOk THEN outcomes
                                                     ELSE {"delivered"} :
                    handleCreateNotification(u, wellFormed, body, newID, dbOk, outcome)
MarkAsRead == \E u \in Users, id \in NotifIDs, dbOk \in BOOLEAN :
    handleMarkAsRead(u, id, dbOk)
MarkAllAsRead == \E u \in Users, dbOk \in BOOLEAN : handleMarkAllAsRead(u, dbOk)
DeleteNotification == \E u \in Users, id \in NotifIDs, dbOk \in BOOLEAN :
    handleDeleteNotification(u, id, dbOk)
ConnectUser == \E u \in Users : Connect(u)
DisconnectUser == \E u \in Users : Disconnect(u)

\* The notification table under the handlers that write it, with the clock.
NextStore ==
    \/ CreateNotification(Bodies, {"delivered"})
    \/ MarkAsRead
    \/ MarkAllAsRead
    \/ DeleteNotification
    \/ Tick

SpecStore == Init /\ [][NextStore]_vars

\* The notification resource with the websocket registry: requests that carry
\* no id and are unread, pushed to the connections that are live at the time.
NextNotif ==
    \/ GetNotifications({q \in QueryLimits : q.kind = "absent" \/ q.value >= 1})
    \/ CreateNotification({b \in Bodies : b.id = EmptyID /\ ~b.is_read}, BroadcastOutcomes)
    \/ MarkAllAsRead
    \/ DeleteNotification
    \/ ConnectUser
    \/ DisconnectUser

SpecNotif == Init /\ [][NextNotif]_vars

\* Listing: rows created at different instants, listed with every kind of limit.
NextList ==
    \/ GetNotifications(QueryLimits)
    \/ CreateNotification({b \in Bodies : b.id = EmptyID /\ ~b.is_read}, {"delivered"})
    \/ DeleteNotification
    \/ Tick

SpecList == Init /\ [][NextList]_vars

\* Counting: the unread count under every handler that writes the table.
NextCount ==
    \/ GetUnreadCount
    \/ CreateNotification({b \in Bodies : b.id = EmptyID}, {"delivered"})
    \/ MarkAsRead
    \/ MarkAllAsRead
    \/ DeleteNotification

SpecCount == Init /\ [][NextCount]_vars

\* ======================================================================
\* Users, the local permission service and the admin handlers
\* ======================================================================
User(id, username, email, password, createAt) ==
    [id |-> id, username |-> username, email |-> email, password |-> password,
     create_at |-> createAt]

UserIDs(us) == {u.id : u \in us}

\* The user functions of the application layer, thin pass-throughs to the store.
GetUser(us, userID) == {u \in us : u.id = userID}

UpdateUser(us, user) ==
    {IF u.id = user.id
     THEN [u EXCEPT !.username = user.username, !.email = user.email]
     ELSE u : u \in us}

UpdateUserPasswordByID(us, userID, password) ==
    {IF u.id = userID THEN [u EXCEPT !.password = password] ELSE u : u \in us}

DeleteUser(us, userID) == {u \in us : u.id # userID}

\* ------------------------------------------------------- localpermissions
PermissionManageSystem == "manage_system"
PermissionViewBoard == "view_board"

\* The loop over GetAllUsers() that keeps the user with the smallest CreateAt.
OldestUser(us) == CHOOSE u \in us : \A v \in us : u.create_at <= v.create_at

\* Service.HasPermissionTo on the service state pm = [firstUserID, firstUserDone].
\* The first manage-system check looks the first user up; firstUserDone is set
\* whether or not the lookup found one (getAllOk = FALSE: GetAllUsers failed).
HasPermissionTo(pm, us, userID, permission, getAllOk) ==
    IF permission = PermissionManageSystem
    THEN LET lookup == ~pm.firstUserDone
             first == IF lookup /\ getAllOk /\ us # {}
                      THEN OldestUser(us).id
                      ELSE pm.firstUserID
         IN  [granted |-> userID = first,
              pm |-> [firstUserID |-> first, firstUserDone |-> TRUE],
              events |-> IF lookup
                         THEN <<Event("permissions.GetAllUsers", EmptyID, userID, getAllOk, "")>>
                         ELSE <<>>]
    ELSE [granted |-> FALSE, pm |-> pm, events |-> <<>>]

\* ------------------------------------------------------------ api: /admin
\* Which call of a request fails, if any. A handler returns at its first
\* failing call, and a failed first-user lookup grants nothing to a session
\* user, so one name says all.
Failures ==
    {"none", "permissions.GetAllUsers", "app.GetAllUsers", "app.GetUser",
     "app.UpdateUser", "app.UpdateUserPasswordByID", "app.DeleteUser",
     "app.UpdateUserPassword"}

\* The bodies of PUT /admin/users/{userID} that json.Unmarshal accepts.
AdminUpdateUserData ==
    [username : {"", "b"}, email : {"", "y"}, password : {"", "q"}]

AdminResult(us, pm, rsp, evs) == [users |-> us, pm |-> pm, resp |-> rsp, events |-> evs]

AdminResponse(op, session, userID, err, granted) ==
    [Response(op, session, userID, err) EXCEPT !.granted = granted]

\* Mutant: the username and the email of the body are stored even when empty.
UpdateFields_OverwritesEmpty(user, updateData) ==
    [user EXCEPT !.username = updateData.username, !.email = updateData.email]

\* "Update fields": a non-empty username and a non-empty email of the body
\* replace those of the user that GetUser returned.
UpdateFields(user, updateData) ==
    [user EXCEPT
        !.username = IF updateData.username # "" THEN updateData.username ELSE @,
        !.email = IF updateData.email # "" THEN updateData.email ELSE @]

\* App.UpdateUserPassword: the password of the user with that username.
UpdateUserPassword(us, username, password) ==
    {IF u.username = username THEN [u EXCEPT !.password = password] ELSE u : u \in us}

\* strings.Contains over the passwords of the model (the empty string and
\* one-letter strings): the empty substring is contained in every string.
Contains(str, substr) == substr = "" \/ str = substr

\* The bodies of the set-password request that json.Unmarshal accepts.
AdminSetPasswordData == [password : {"", "q"}]

\* handleAdminSetPassword: body, the test on the password, UpdateUserPassword.
\* The handler reads no session and checks no permission.
handleAdminSetPassword(us, pm, username, wellFormed, requestData, fail) ==
    LET op == "adminSetPassword"
        known == \E u \in us : u.username = username
        call == Event("app.UpdateUserPassword", EmptyID, EmptyID,
                      fail # "app.UpdateUserPassword" /\ known, "")
        request == [Response(op, EmptyID, EmptyID, "none") EXCEPT !.list = <<requestData>>]
    IN  IF ~wellFormed
        THEN AdminResult(us, pm, Response(op, EmptyID, EmptyID, "json"), <<>>)
        ELSE IF ~Contains(requestData.password, "")
        THEN AdminResult(us, pm, [request EXCEPT !.err = "bad_request"], <<>>)
        ELSE IF fail = "app.UpdateUserPassword"
        THEN AdminResult(us, pm, [request EXCEPT !.err = "store"], <<call>>)
        ELSE IF ~known
        THEN AdminResult(us, pm, [request EXCEPT !.err = "not_found"], <<call>>)
        ELSE AdminResult(UpdateUserPassword(us, username, requestData.password), pm,
                         request, <<call>>)

\* GET /admin/users
handleAdminGetAllUsers(us, pm, session, fail) ==
    LET p == HasPermissionTo(pm, us, session, PermissionManageSystem,
                             fail # "permissions.GetAllUsers")
        op == "adminGetAllUsers"
        call == Event("app.GetAllUsers", EmptyID, session, fail # "app.GetAllUsers", "")
    IN  IF ~p.granted
        THEN AdminResult(us, p.pm, AdminResponse(op, session, EmptyID, "unauthorized", p.granted),
                         p.events)
        ELSE IF fail = "app.GetAllUsers"
        THEN AdminResult(us, p.pm, AdminResponse(op, session, EmptyID, "store", p.granted),
                         p.events \o <<call>>)
        ELSE AdminResult(us, p.pm,
                         [AdminResponse(op, session, EmptyID, "none", p.granted) EXCEPT !.users = us],
                         p.events \o <<call>>)

\* GET /admin/users/{userID}
handleAdminGetUser(us, pm, session, userID, fail) ==
    LET p == HasPermissionTo(pm, us, session, PermissionManageSystem,
                             fail # "permissions.GetAllUsers")
        op == "adminGetUser"
        found == GetUser(us, userID)
        call == Event("app.GetUser", userID, session,
                      fail # "app.GetUser" /\ found # {}, "")
    IN  IF ~p.granted
        THEN AdminResult(us, p.pm, AdminResponse(op, session, userID, "unauthorized", p.granted),
                         p.events)
        ELSE IF fail = "app.GetUser"
        THEN AdminResult(us, p.pm, AdminResponse(op, session, userID, "store", p.granted),
                         p.events \o <<call>>)
        ELSE IF found = {}
        THEN AdminResult(us, p.pm, AdminResponse(op, session, userID, "not_found", p.granted),
                         p.events \o <<call>>)
        ELSE AdminResult(us, p.pm,
                         [AdminResponse(op, session, userID, "none", p.granted) EXCEPT !.users = found],
                         p.events \o <<call>>)

\* PUT /admin/users/{userID} with the body decoded before the permission check.
handleAdminUpdateUser_BodyFirst(us, pm, session, userID, wellFormed, updateData, fail) ==
    LET p == HasPermissionTo(pm, us, session, PermissionManageSystem,
                             fail # "permissions.GetAllUsers")
        op == "adminUpdateUser"
    IN  IF ~wellFormed
        THEN AdminResult(us, p.pm, AdminResponse(op, session, userID, "json", p.granted), p.events)
        ELSE IF ~p.granted
        THEN AdminResult(us, p.pm, AdminResponse(op, session, userID, "unauthorized", p.granted),
                         p.events)
        ELSE AdminResult(us, p.pm, AdminResponse(op, session, userID, "none", p.granted),
                         p.events)

\* PUT /admin/users/{userID}: permission check, body, GetUser, the non-empty
\* username and email are set, UpdateUser, then UpdateUserPasswordByID when the
\* password is not empty.
handleAdminUpdateUser(us, pm, session, userID, wellFormed, updateData, fail) ==
    LET p == HasPermissionTo(pm, us, session, PermissionManageSystem,
                             fail # "permissions.GetAllUsers")
        op == "adminUpdateUser"
        found == GetUser(us, userID)
        get == Event("app.GetUser", userID, session,
                     fail # "app.GetUser" /\ found # {}, "")
        user == CHOOSE u \in found : TRUE
        edited == UpdateFields(user, updateData)
        update == Event("app.UpdateUser", userID, session, fail # "app.UpdateUser", "")
        updated == UpdateUser(us, edited)
        setPassword == Event("app.UpdateUserPasswordByID", userID, session,
                             fail # "app.UpdateUserPasswordByID", "")
    IN  IF ~p.granted
        THEN AdminResult(us, p.pm, AdminResponse(op, session, userID, "unauthorized", p.granted),
                         p.events)
        ELSE IF ~wellFormed
        THEN AdminResult(us, p.pm, AdminResponse(op, session, userID, "json", p.granted), p.events)
        ELSE IF fail = "app.GetUser"
        THEN AdminResult(us, p.pm, AdminResponse(op, session, userID, "store", p.granted),
                         p.events \o <<get>>)
        ELSE IF found = {}
        THEN AdminResult(us, p.pm, AdminResponse(op, session, userID, "not_found", p.granted),
                         p.events \o <<get>>)
        ELSE IF fail = "app.UpdateUser"
        THEN AdminResult(us, p.pm, AdminResponse(op, session, userID, "store", p.granted),
                         p.events \o <<get, update>>)
        ELSE IF updateData.password = ""
        THEN AdminResult(updated, p.pm,
                         [AdminResponse(op, session, userID, "none", p.granted)
                             EXCEPT !.users = GetUser(updated, userID)],
                         p.events \o <<get, update>>)
        ELSE IF fail = "app.UpdateUserPasswordByID"
        THEN AdminResult(updated, p.pm, AdminResponse(op, session, userID, "store", p.granted),
                         p.events \o <<get, update, setPassword>>)
        ELSE AdminResult(UpdateUserPasswordByID(updated, userID, updateData.password), p.pm,
                         [AdminResponse(op, session, userID, "none", p.granted)
                             EXCEPT !.users = GetUser(updated, userID)],
                         p.events \o <<get, update, setPassword>>)

\* DELETE /admin/users/{userID} without the "cannot delete yourself" test.
handleAdminDeleteUser_NoSelfCheck(us, pm, session, userID, fail) ==
    LET p == HasPermissionTo(pm, us, session, PermissionManageSystem,
                             fail # "permissions.GetAllUsers")
        op == "adminDeleteUser"
        call == Event("app.DeleteUser", userID, session, fail # "app.DeleteUser", "")
    IN  IF ~p.granted
        THEN AdminResult(us, p.pm, AdminResponse(op, session, userID, "unauthorized", p.granted),
                         p.events)
        ELSE IF fail = "app.DeleteUser"
        THEN AdminResult(us, p.pm, AdminResponse(op, session, userID, "store", p.granted),
                         p.events \o <<call>>)
        ELSE AdminResult(DeleteUser(us, userID), p.pm,
                         AdminResponse(op, session, userID, "none", p.granted),
                         p.events \o <<call>>)

\* DELETE /admin/users/{userID}: permission check, "cannot delete yourself",
\* then DeleteUser.
handleAdminDeleteUser(us, pm, session, userID, fail) ==
    LET p == HasPermissionTo(pm, us, session, PermissionManageSystem,
                             fail # "permissions.GetAllUsers")
        op == "adminDeleteUser"
        call == Event("app.DeleteUser", userID, session, fail # "app.DeleteUser", "")
    IN  IF ~p.granted
        THEN AdminResult(us, p.pm, AdminResponse(op, session, userID, "unauthorized", p.granted),
                         p.events)
        ELSE IF userID = session
        THEN AdminResult(us, p.pm, AdminResponse(op, session, userID, "bad_request", p.granted),
                         p.events)
        ELSE IF fail = "app.DeleteUser"
        THEN AdminResult(us, p.pm, AdminResponse(op, session, userID, "store", p.granted),
                         p.events \o <<call>>)
        ELSE AdminResult(DeleteUser(us, userID), p.pm,
                         AdminResponse(op, session, userID, "none", p.granted),
                         p.events \o <<call>>)

\* The state after an admin handler returned r.
Apply(r) ==
    /\ users' = r.users
    /\ firstUserID' = r.pm.firstUserID
    /\ firstUserDone' = r.pm.firstUserDone
    /\ resp' = r.resp
    /\ events' = r.events
    /\ UNCHANGED <<now, notifVars, puts, otherVars>>

PermissionService == [firstUserID |-> firstUserID, firstUserDone |-> firstUserDone]

\* The first-user lookup can fail only in a request that makes it.
LookupFailures == IF firstUserDone THEN {} ELSE {"permissions.GetAllUsers"}

\* A session belongs to a registered user.
AdminGetAllUsers ==
    \E session \in UserIDs(users), fail \in {"none", "app.GetAllUsers"} \cup LookupFailures :
        Apply(handleAdminGetAllUsers(users, PermissionService, session, fail))

AdminGetUser ==
    \E session \in UserIDs(users), userID \in Users,
       fail \in {"none", "app.GetUser"} \cup LookupFailures :
        Apply(handleAdminGetUser(users, PermissionService, session, userID, fail))

AdminUpdateUser ==
    \E session \in UserIDs(users), userID \in Users, wellFormed \in BOOLEAN :
        \E updateData \in IF wellFormed THEN AdminUpdateUserData
                                        ELSE {[username |-> "", email |-> "", password |-> ""]} :
          \E fail \in {"none"} \cup LookupFailures \cup
                      (IF wellFormed THEN {"app.GetUser", "app.UpdateUser"} ELSE {}) \cup
                      (IF updateData.password # "" THEN {"app.UpdateUserPasswordByID"} ELSE {}) :
            LET r == handleAdminUpdateUser(users, PermissionService, session, userID,
                                           wellFormed, updateData, fail)
            IN  Apply([r EXCEPT !.resp.list = IF wellFormed THEN <<updateData>> ELSE <<>>])

AdminSetPassword ==
    \E username \in {"a", "b"}, wellFormed \in BOOLEAN :
        \E requestData \in IF wellFormed THEN AdminSetPasswordData ELSE {[password |-> ""]},
           fail \in IF wellFormed THEN {"none", "app.UpdateUserPassword"} ELSE {"none"} :
            Apply(handleAdminSetPassword(users, PermissionService, username, wellFormed,
                                         requestData, fail))

AdminDeleteUser ==
    \E session \in UserIDs(users), userID \in Users,
       fail \in {"none", "app.DeleteUser"} \cup LookupFailures :
        Apply(handleAdminDeleteUser(users, PermissionService, session, userID, fail))

\* Any other caller of HasPermissionTo.
CheckPermission ==
    \E userID \in Users, permission \in {PermissionManageSystem, PermissionViewBoard},
       getAllOk \in BOOLEAN :
        LET p == HasPermissionTo(PermissionService, users, userID, permission, getAllOk)
        IN  /\ firstUserID' = p.pm.firstUserID
            /\ firstUserDone' = p.pm.firstUserDone
            /\ resp' = [Response("HasPermissionTo", userID, EmptyID, "none")
                           EXCEPT !.granted = p.granted, !.list = <<permission>>]
            /\ events' = p.events
            /\ UNCHANGED <<users, now, notifVars, puts, otherVars>>

\* A new account: registrations happen at distinct instants.
RegisterUser ==
    \E u \in Users \ UserIDs(users) :
        /\ now < MaxRegistrations
        /\ users' = users \cup {User(u, "a", "x", "p", now)}
        /\ now' = now + 1
        /\ resp' = Response("registerUser", u, EmptyID, "none")
        /\ events' = <<>>
        /\ UNCHANGED <<firstUserID, firstUserDone, notifVars, puts, otherVars>>

NextAdmin ==
    \/ RegisterUser
    \/ CheckPermission
    \/ AdminGetAllUsers
    \/ AdminGetUser
    \/ AdminUpdateUser
    \/ AdminDeleteUser
    \/ AdminSetPassword

SpecAdmin == Init /\ [][NextAdmin]_vars

\* ------------------------------------------- PUT /admin/users/{userID}, concurrent
\* The handler cut at its data-access calls, so that two requests interleave:
\* each goroutine keeps the user it read in a local until it writes it back.

\* Permission check, body, GetUser: the request is rejected, or the user that
\* was read is kept in the goroutine's locals.
AdminUpdateUser_GetUser(slot, session, userID, updateData) ==
    LET p == HasPermissionTo(PermissionService, users, session, PermissionManageSystem, TRUE)
        found == GetUser(users, userID)
        get == Event("app.GetUser", userID, session, found # {}, "")
        rejected == [AdminResponse("adminUpdateUser", session, userID,
                                   IF ~p.granted THEN "unauthorized" ELSE "not_found",
                                   p.granted)
                        EXCEPT !.list = <<updateData>>]
    IN  /\ puts[slot].pc = "idle"
        /\ firstUserID' = p.pm.firstUserID
        /\ firstUserDone' = p.pm.firstUserDone
        /\ IF p.granted /\ found # {}
           THEN /\ puts' = [puts EXCEPT ![slot] =
                               [pc |-> "update", session |-> session, userID |-> userID,
                                updateData |-> updateData, user |-> found]]
                /\ resp' = NoResp
                /\ events' = p.events \o <<get>>
           ELSE /\ puts' = puts
                /\ resp' = rejected
                /\ events' = IF p.granted THEN p.events \o <<get>> ELSE p.events
        /\ UNCHANGED <<users, now, notifVars, otherVars>>

\* "Update fields" on the user that was read, then UpdateUser of that user; the
\* response follows when the body carries no password.
AdminUpdateUser_UpdateUser(slot) ==
    LET put == puts[slot]
        user == CHOOSE u \in put.user : TRUE
        last == put.updateData.password = ""
    IN  /\ put.pc = "update"
        /\ users' = UpdateUser(users, UpdateFields(user, put.updateData))
        /\ puts' = [puts EXCEPT ![slot].pc = IF last THEN "done" ELSE "password"]
        /\ events' = <<Event("app.UpdateUser", put.userID, put.session, TRUE, "")>>
        /\ resp' = IF last
                   THEN [AdminResponse("adminUpdateUser", put.session, put.userID, "none", TRUE)
                            EXCEPT !.list = <<put.updateData>>]
                   ELSE NoResp
        /\ UNCHANGED <<firstUserID, firstUserDone, now, notifVars, otherVars>>

\* UpdateUserPasswordByID for a non-empty password, then the response.
AdminUpdateUser_UpdatePassword(slot) ==
    LET put == puts[slot]
    IN  /\ put.pc = "password"
        /\ users' = UpdateUserPasswordByID(users, put.userID, put.updateData.password)
        /\ puts' = [puts EXCEPT ![slot].pc = "done"]
        /\ events' = <<Event("app.UpdateUserPasswordByID", put.userID, put.session, TRUE, "")>>
        /\ resp' = [AdminResponse("adminUpdateUser", put.session, put.userID, "none", TRUE)
                       EXCEPT !.list = <<put.updateData>>]
        /\ UNCHANGED <<firstUserID, firstUserDone, now, notifVars, otherVars>>

PutGetUser ==
    \E slot \in Slots, session \in UserIDs(users), userID \in Users,
       updateData \in AdminUpdateUserData :
        AdminUpdateUser_GetUser(slot, session, userID, updateData)
PutUpdateUser == \E slot \in Slots : AdminUpdateUser_UpdateUser(slot)
PutUpdatePassword == \E slot \in Slots : AdminUpdateUser_UpdatePassword(slot)

\* Two PUT requests side by side, with registrations.
NextConc ==
    \/ RegisterUser
    \/ PutGetUser
    \/ PutUpdateUser
    \/ PutUpdatePassword

SpecConc == Init /\ [][NextConc]_vars

\* ----------------------------------------- HasPermissionTo, concurrent callers
\* Service has no lock: HasPermissionTo(userID, PermissionManageSystem) cut at
\* its reads and writes of the service's fields and at its store call.

\* if !s.firstUserDone: the goroutine goes on to the lookup or to the return.
HasPermissionTo_Begin(slot, userID) ==
    /\ checks.slots[slot].pc = "idle"
    /\ checks' = [checks EXCEPT !.slots[slot] =
                     [pc |-> IF firstUserDone THEN "return" ELSE "lookup",
                      userID |-> userID, found |-> {}]]
    /\ events' = <<>>
    /\ resp' = NoResp
    /\ UNCHANGED <<users, firstUserID, firstUserDone, puts, now, notifVars,
                   client, card, boardCheck>>

\* s.store.GetAllUsers() and the loop that keeps the oldest user.
HasPermissionTo_GetAllUsers(slot, getAllOk) ==
    /\ checks.slots[slot].pc = "lookup"
    /\ checks' = [checks EXCEPT
                     !.slots[slot].pc = "cache",
                     !.slots[slot].found = IF getAllOk /\ users # {}
                                           THEN {OldestUser(users).id} ELSE {},
                     !.lookups = @ + 1]
    /\ events' = <<Event("permissions.GetAllUsers", EmptyID, checks.slots[slot].userID,
                         getAllOk, "")>>
    /\ resp' = NoResp
    /\ UNCHANGED <<users, firstUserID, firstUserDone, puts, now, notifVars,
                   client, card, boardCheck>>

\* s.firstUserID = oldestUser.ID when one was found; s.firstUserDone = true.
HasPermissionTo_Cache(slot) ==
    /\ checks.slots[slot].pc = "cache"
    /\ firstUserID' = IF checks.slots[slot].found # {}
                      THEN CHOOSE id \in checks.slots[slot].found : TRUE
                      ELSE firstUserID
    /\ firstUserDone' = TRUE
    /\ checks' = [checks EXCEPT !.slots[slot].pc = "return"]
    /\ events' = <<>>
    /\ resp' = NoResp
    /\ UNCHANGED <<users, puts, now, notifVars, client, card, boardCheck>>

\* return userID == s.firstUserID
HasPermissionTo_Return(slot) ==
    /\ checks.slots[slot].pc = "return"
    /\ resp' = [Response("HasPermissionTo", checks.slots[slot].userID, EmptyID, "none")
                   EXCEPT !.granted = (checks.slots[slot].userID = firstUserID),
                          !.list = <<PermissionManageSystem>>]
    /\ checks' = [checks EXCEPT !.slots[slot] = IdleCheck, !.returned = TRUE]
    /\ events' = <<>>
    /\ UNCHANGED <<users, firstUserID, firstUserDone, puts, now, notifVars,
                   client, card, boardCheck>>

\* Manage-system checks side by side, for every user id and the empty one, with
\* lookups that succeed or fail, and registrations.
NextPerm ==
    \/ RegisterUser
    \/ \E slot \in Slots, userID \in Users \cup {EmptyID} :
           HasPermissionTo_Begin(slot, userID)
    \/ \E slot \in Slots, getAllOk \in BOOLEAN :
           HasPermissionTo_GetAllUsers(slot, getAllOk)
    \/ \E slot \in Slots : HasPermissionTo_Cache(slot)
    \/ \E slot \in Slots : HasPermissionTo_Return(slot)

SpecPerm == Init /\ [][NextPerm]_vars

\* ======================================================================
\* Properties of the notification store (SpecStore)
\* ======================================================================
IsMarkAllAsRead(r) == r.op = "markAllNotificationsAsRead"
IsMarkAsRead(r) == r.op = "markNotificationAsRead"
IsDelete(r) == r.op = "deleteNotification"
IsCreate(r) == r.op = "createNotification"
IsGet(r) == r.op = "getNotifications"

\* C1: after MarkAllNotificationsAsRead(u) returned without error, every row of u
\* that was unread before the call is stored with is_read = TRUE, and every row
\* of another user is stored exactly as before (is_read and update_at included).
C1_MarkAllReadsOwnRowsOnly ==
    [][(IsMarkAllAsRead(resp') /\ resp'.err = "none") =>
        /\ \A r \in rows : (r.target_user_id = resp'.user /\ ~r.is_read) =>
              \E r2 \in rows' : r2.id = r.id /\ r2.is_read
        /\ \A r \in rows : r.target_user_id # resp'.user => r \in rows'
        /\ \A r2 \in rows' : r2.target_user_id # resp'.user => r2 \in rows]_vars

\* C1 witness: a successful mark-all of a user left one of their rows read with
\* update_at later than create_at, while an unread row of another user is stored.
C1_Witness ==
    /\ IsMarkAllAsRead(resp) /\ resp.err = "none"
    /\ \E r \in rows : /\ r.target_user_id = resp.user /\ r.is_read
                       /\ r.update_at = now /\ r.update_at > r.create_at
    /\ \E r \in rows : r.target_user_id # resp.user /\ ~r.is_read

\* C2: DeleteUserNotification(id, caller) removes no row other than the row
\* with that id owned by the caller, and removes that one when the statement
\* runs; when the row with that id is owned by another user the table is
\* unchanged and, the statement having run, the call returns success.
C2_DeleteScopedByOwner ==
    [][IsDelete(resp') =>
        /\ \A r \in rows : r \notin rows' =>
              (r.id = resp'.arg /\ r.target_user_id = resp'.user)
        /\ rows' \subseteq rows
        /\ events'[1].ok => (/\ resp'.err = "none"
                             /\ \A r \in rows' : ~(r.id = resp'.arg /\ r.target_user_id = resp'.user))
        /\ (\E r \in rows : r.id = resp'.arg /\ r.target_user_id # resp'.user) =>
              (rows' = rows /\ (events'[1].ok => resp'.err = "none"))]_vars

\* C2 witness: a delete by a user who does not own the row returned success and
\* the row is still stored.
C2_Witness ==
    /\ IsDelete(resp) /\ resp.err = "none"
    /\ \E r \in rows : r.id = resp.arg /\ r.target_user_id # resp.user

\* The read state of a table: which id is read.
ReadState(table) == {<<r.id, r.is_read>> : r \in table}

\* C3: MarkNotificationAsRead(id, user), the statement having run, returns
\* success; with an id that matches no stored row it changes no row; a row that
\* was read stays read; and applying it once more gives the same read state.
C3_MarkAsReadIdempotent ==
    [][(IsMarkAsRead(resp') /\ events'[1].ok) =>
        /\ resp'.err = "none"
        /\ (~\E r \in rows : r.id = resp'.arg) => rows' = rows
        /\ \A r \in rows : r.is_read => \E r2 \in rows' : r2.id = r.id /\ r2.is_read
        /\ ReadState(markNotificationAsRead(rows', resp'.arg, resp'.user, now', TRUE).table)
              = ReadState(rows')
        /\ ~markNotificationAsRead(rows', resp'.arg, resp'.user, now', TRUE).err]_vars

\* C3 witness: a mark-as-read with an id that matches no stored row returned
\* success, with rows of other ids stored.
C3_Witness ==
    /\ IsMarkAsRead(resp) /\ resp.err = "none"
    /\ rows # {}
    /\ \A r \in rows : r.id # resp.arg

\* C4: a successful create returns a row whose id is not empty and is the id of
\* no row that was stored before, whatever id the body carried; no two stored
\* rows share an id and no stored id is empty.
C4_CreatedIdFreshAndUnique ==
    [][/\ \A r1, r2 \in rows' : r1.id = r2.id => r1 = r2
       /\ \A r \in rows' : r.id # EmptyID
       /\ (IsCreate(resp') /\ resp'.err = "none") =>
             /\ Cardinality(resp'.created) = 1
             /\ \A c \in resp'.created :
                   /\ c.id # EmptyID
                   /\ \A r \in rows : r.id # c.id
                   /\ c \in rows']_vars

\* C4 witness: a create whose body carried the id of a row already stored
\* succeeded, and the created row has another id.
C4_Witness ==
    /\ IsCreate(resp) /\ resp.err = "none"
    /\ \E r \in rows : r.id = resp.arg /\ r \notin resp.created
    /\ \E c \in resp.created : c.id # resp.arg /\ c \in rows

\* C11: MarkNotificationAsRead(id, caller) leaves every row whose target is not
\* the caller exactly as it was (is_read and update_at included), and in every
\* step a row turns from unread to read only in a mark-as-read or mark-all
\* request of its target user.
C11_OnlyTargetMarksRead ==
    [][/\ IsMarkAsRead(resp') =>
             \A r \in rows : r.target_user_id # resp'.user => r \in rows'
       /\ \A r \in rows, r2 \in rows' :
             (r2.id = r.id /\ ~r.is_read /\ r2.is_read) =>
                 /\ IsMarkAsRead(resp') \/ IsMarkAllAsRead(resp')
                 /\ resp'.user = r.target_user_id]_vars

\* C11 witness: a mark-as-read by a user who is not the row's target returned
\* success and the row is still unread.
C11_Witness ==
    /\ IsMarkAsRead(resp) /\ resp.err = "none"
    /\ \E r \in rows : r.id = resp.arg /\ r.target_user_id # resp.user /\ ~r.is_read

\* C12: every notification stored by a create request is stored and returned
\* with is_read = FALSE, for every request body.
C12_CreatedUnread ==
    (IsCreate(resp) /\ resp.err = "none") =>
        \A c \in resp.created : ~c.is_read /\ c \in rows

\* The fields of a row that no store function writes after the insert.
Identity(r) ==
    <<r.id, r.target_user_id, r.actor_user_id, r.actor_name, r.type, r.card_id,
      r.card_title, r.board_id, r.create_at>>

\* C13: in every step a stored row keeps its id, target_user_id, actor_user_id,
\* actor_name, type, card_id, card_title, board_id and create_at; a read row
\* never becomes unread; and a row leaves the table only in a delete request of
\* its target user.
C13_RowImmutableButRead ==
    [][\A r \in rows :
          \/ \E r2 \in rows' : /\ Identity(r2) = Identity(r)
                               /\ r.is_read => r2.is_read
          \/ /\ \A r2 \in rows' : r2.id # r.id
             /\ IsDelete(resp') /\ resp'.user = r.target_user_id /\ resp'.arg = r.id]_vars

\* C13 witness: a mark-as-read of a row that was already read left it read, at
\* an instant later than its creation.
C13_Witness ==
    /\ IsMarkAsRead(resp) /\ resp.err = "none"
    /\ \E r \in rows : /\ r.id = resp.arg /\ r.target_user_id = resp.user
                       /\ r.is_read /\ r.update_at > r.create_at

\* C20: the actor_user_id of a created notification is the id of the
\* authenticated user whose request created it.
C20_ActorIsCaller ==
    (IsCreate(resp) /\ resp.err = "none") =>
        \A c \in resp.created : c.actor_user_id = resp.user

\* ======================================================================
\* Properties of create-and-broadcast (SpecNotif)
\* ======================================================================
\* The positions in a handler's call list of the calls named ev.
Calls(evs, ev) == {i \in 1..Len(evs) : evs[i].ev = ev}

\* C8: in every request a broadcast comes after the successful insert of the
\* notification it carries and is addressed to that notification's target user;
\* there is exactly one broadcast per successful insert; a failed insert is
\* followed by no broadcast and the error is returned.
C8_InsertBeforeBroadcast ==
    LET inserted == {i \in Calls(events, "insert") : events[i].ok}
        failed == {i \in Calls(events, "insert") : ~events[i].ok}
        pushes == Calls(events, "broadcast")
    IN  /\ \A j \in pushes : \E i \in inserted :
              /\ i < j
              /\ events[i].id = events[j].id
              /\ \E r \in rows : r.id = events[j].id /\ r.target_user_id = events[j].to
        /\ Cardinality(pushes) = Cardinality(inserted)
        /\ failed # {} => (pushes = {} /\ resp.err = "store" /\ resp.created = {})
        /\ pushes # {} => IsCreate(resp)

\* C8 witness: a create inserted a row and then pushed it to a live connection
\* of its target user.
C8_Witness ==
    /\ IsCreate(resp) /\ Len(events) = 2
    /\ events[1].ev = "insert" /\ events[1].ok
    /\ events[2].ev = "broadcast" /\ events[2].ok /\ events[2].to \in conns

\* C9: the answer to a create request is decided by the insert alone: it is a
\* success exactly when the insert succeeded, whatever became of the broadcast,
\* and then the created row is returned and is stored.
C9_BroadcastOutcomeIgnored ==
    (IsCreate(resp) /\ events # <<>>) =>
        /\ events[1].ev = "insert"
        /\ (resp.err = "none") <=> events[1].ok
        /\ resp.err \in {"none", "store"}
        /\ resp.err = "none" =>
              /\ Cardinality(resp.created) = 1
              /\ resp.created \subseteq rows
              /\ \A c \in resp.created : c.id = events[1].id

\* C9 witness: the broadcast write failed on a live connection and the create
\* answered with the created row, which is stored.
C9_Witness ==
    /\ IsCreate(resp) /\ resp.err = "none"
    /\ \E j \in Calls(events, "broadcast") : events[j].out = "failed"
    /\ resp.created # {} /\ resp.created \subseteq rows

\* C10: a stored notification is never broadcast again (so one created while
\* its target had no live connection is never pushed), it leaves the table only
\* by a delete of its target user, and a successful GetUserNotifications of a
\* user with a limit of at least the number of their rows returns all of them.
C10_StoredUntilDeletedAndListed ==
    [][/\ \A j \in Calls(events', "broadcast") :
              events'[j].id \notin {r.id : r \in rows}
       /\ \A r \in rows : (\A r2 \in rows' : r2.id # r.id) =>
              (IsDelete(resp') /\ resp'.user = r.target_user_id /\ resp'.arg = r.id)
       /\ (/\ IsGet(resp') /\ resp'.err = "none"
           /\ resp'.arg >= Cardinality(RowsOf(rows', resp'.user))) =>
              \A r \in RowsOf(rows', resp'.user) :
                  \E k \in 1..Len(resp'.list) : resp'.list[k] = r]_vars

\* C10 witness: a user who is connected now lists their notifications with a
\* limit equal to their number and gets one that was created while they had no
\* live connection.
C10_Witness ==
    /\ IsGet(resp) /\ resp.err = "none"
    /\ resp.user \in conns
    /\ resp.arg = Cardinality(RowsOf(rows, resp.user))
    /\ \E k \in 1..Len(resp.list) : resp.list[k].id \in unpushed

\* ======================================================================
\* Properties of the admin routes and the permission service (SpecAdmin)
\* ======================================================================
AdminOps == {"adminGetAllUsers", "adminGetUser", "adminUpdateUser", "adminDeleteUser"}

IsAdminRejection(r) == r.op \in AdminOps /\ ~r.granted

C6_AdminCannotDeleteSelf ==
    [][(resp'.op = "adminDeleteUser" /\ resp'.granted /\ resp'.arg = resp'.user) =>
          /\ resp'.err = "bad_request"
          /\ Calls(events', "app.DeleteUser") = {}
          /\ users' = users
          /\ resp'.user \in UserIDs(users')]_vars

C6_Witness ==
    /\ resp.op = "adminDeleteUser"
    /\ resp.granted
    /\ resp.arg = resp.user
    /\ resp.err = "bad_request"
    /\ resp.user \in UserIDs(users)

\* C7: after any registrations and permission checks,
\* HasPermissionTo(userID, PermissionManageSystem) is true exactly when userID
\* is the stored user with the smallest CreateAt, whenever the first check was
\* made.
C7_GrantedExactlyToFirstRegisteredUser ==
    (resp.op = "HasPermissionTo" /\ resp.list = <<PermissionManageSystem>>) =>
        (resp.granted <=> (users # {} /\ resp.user = OldestUser(users).id))

\* The stored record of the user with that id (callers make sure it exists).
StoredUser(us, userID) == CHOOSE u \in us : u.id = userID

\* C14: whenever an admin handler answers with an error the persisted users are
\* those before the request; in particular an error of PUT /admin/users/{userID}
\* leaves the username, the email and the password of the target unchanged.
C14_ErrorLeavesStateUnchanged ==
    [][(resp'.op \in AdminOps /\ resp'.err # "none") => users' = users]_vars

\* C17: handleAdminSetPassword answers a body whose password is missing or empty
\* with the bad-request error, without calling UpdateUserPassword, and no stored
\* password changes.
C17_EmptyPasswordRejected ==
    [][(/\ resp'.op = "adminSetPassword"
        /\ resp'.list # <<>>
        /\ resp'.list[1].password = "") =>
          /\ resp'.err = "bad_request"
          /\ Calls(events', "app.UpdateUserPassword") = {}
          /\ users' = users]_vars

\* C18: a successful PUT /admin/users/{userID} leaves the stored username
\* unchanged when the body's username is empty or absent, the stored email
\* unchanged when the body's email is empty or absent, the password unchanged
\* unless a non-empty password is supplied, and every other field and every
\* other user's record as they were.
C18_UpdateChangesSuppliedFieldsOnly ==
    [][(resp'.op = "adminUpdateUser" /\ resp'.err = "none") =>
          LET d == resp'.list[1]
              before == StoredUser(users, resp'.arg)
              after == StoredUser(users', resp'.arg)
          IN  /\ UserIDs(users') = UserIDs(users)
              /\ d.username = "" => after.username = before.username
              /\ d.email = "" => after.email = before.email
              /\ d.password = "" => after.password = before.password
              /\ after.id = before.id /\ after.create_at = before.create_at
              /\ \A v \in users : v.id # resp'.arg => v \in users']_vars

\* C18 witness: a PUT that supplied only a username succeeded on another user's
\* record; the username is stored, the email and the password are the old ones.
C18_Witness ==
    /\ resp.op = "adminUpdateUser" /\ resp.err = "none"
    /\ resp.arg # resp.user
    /\ resp.list = <<[username |-> "b", email |-> "", password |-> ""]>>
    /\ \E u \in users : /\ u.id = resp.arg /\ u.username = "b"
                        /\ u.email = "x" /\ u.password = "p"
    /\ Cardinality(users) = 2

\* ======================================================================
\* Properties of listing and counting (SpecList, SpecCount)
\* ======================================================================
IsCount(r) == r.op = "getUnreadCount"

\* C15: a successful GET /notifications returns only stored rows whose target is
\* the caller, from newest to oldest, and never more rows than the limit, which
\* is 50 when the query parameter is absent or not an integer, for every
\* integer limit, 0 and negative ones included.
C15_ListScopedOrderedLimited ==
    [][(IsGet(resp') /\ resp'.err = "none") =>
          LET list == resp'.list
          IN  /\ \A k \in 1..Len(list) :
                    list[k] \in rows' /\ list[k].target_user_id = resp'.user
              /\ \A i, j \in 1..Len(list) :
                    i < j => list[i].create_at >= list[j].create_at
              /\ events'[1].out \in {"absent", "garbage"} => resp'.arg = DefaultLimit
              /\ Len(list) <= IF resp'.arg < 0 THEN 0 ELSE resp'.arg]_vars

\* The unread rows of user u.
UnreadRows(table, u) == {r \in table : r.target_user_id = u /\ ~r.is_read}

\* C16: the unread count returned for u is the number of stored unread rows of
\* u; after a successful mark-all of u it is 0; and in every step the number
\* changes only in a mark or delete request of u or in a create of an unread
\* row whose target is u, and grows only in such a create.
C16_UnreadCount ==
    [][/\ (IsCount(resp') /\ resp'.err = "none") =>
             resp'.arg = Cardinality(UnreadRows(rows', resp'.user))
       /\ (IsMarkAllAsRead(resp') /\ resp'.err = "none") =>
             UnreadRows(rows', resp'.user) = {}
       /\ \A u \in Users :
             LET before == Cardinality(UnreadRows(rows, u))
                 after == Cardinality(UnreadRows(rows', u))
                 created == /\ IsCreate(resp')
                            /\ \E c \in resp'.created : c.target_user_id = u /\ ~c.is_read
                 own == /\ IsMarkAsRead(resp') \/ IsMarkAllAsRead(resp') \/ IsDelete(resp')
                        /\ resp'.user = u
             IN  /\ after # before => (created \/ own)
                 /\ after > before => created]_vars

\* C16 witness: the count of a user is 1 while a read row of theirs is stored
\* as well.
C16_Witness ==
    /\ IsCount(resp) /\ resp.err = "none" /\ resp.arg = 1
    /\ \E r \in rows : r.target_user_id = resp.user /\ r.is_read
    /\ \E r \in rows : r.target_user_id = resp.user /\ ~r.is_read

\* ======================================================================
\* Properties of concurrent admin updates (SpecConc)
\* ======================================================================
\* C19: when two PUT requests for the same user, one supplying only a new
\* username and the other only a new email, have both succeeded, the stored user
\* has the new username and the new email.
C19_ConcurrentUpdatesBothKept ==
    \A p, q \in Slots :
        (/\ puts[p].pc = "done" /\ puts[q].pc = "done"
         /\ puts[p].userID = puts[q].userID
         /\ puts[p].updateData = [username |-> "b", email |-> "", password |-> ""]
         /\ puts[q].updateData = [username |-> "", email |-> "y", password |-> ""]) =>
            LET u == StoredUser(users, puts[p].userID)
            IN  u.username = "b" /\ u.email = "y"

\* -------------------------------------------------------- HasPermissionToBoard
\* permission == nil, and the board permissions of the model package.
NilPermission == ""
PermissionManageBoardType == "manage_board_type"
PermissionDeleteBoard == "delete_board"
PermissionManageBoardRoles == "manage_board_roles"
PermissionShareBoard == "share_board"
PermissionDeleteOthersComments == "delete_others_comments"
PermissionManageBoardCards == "manage_board_cards"
PermissionManageBoardProperties == "manage_board_properties"
PermissionCommentBoardCards == "comment_board_cards"

BoardPermissions ==
    {PermissionManageBoardType, PermissionDeleteBoard, PermissionManageBoardRoles,
     PermissionShareBoard, PermissionDeleteOthersComments, PermissionManageBoardCards,
     PermissionManageBoardProperties, PermissionCommentBoardCards, PermissionViewBoard}

\* The roles of a board member, lowest first: BoardMember.SchemeViewer,
\* SchemeCommenter, SchemeEditor, SchemeAdmin are the roles in member.schemes.
Roles == <<"viewer", "commenter", "editor", "admin">>
RoleNames == {Roles[i] : i \in DOMAIN Roles}

\* The switch on member.MinimumRole: the scheme flag of a known role is set, any
\* other value sets none.
WithMinimumRole(member) ==
    IF member.MinimumRole \in RoleNames
    THEN member.schemes \cup {member.MinimumRole}
    ELSE member.schemes

HasPermissionToBoard_EditorWithoutAdmin(userID, boardID, permission, lookup, member) ==
    IF userID = EmptyID \/ boardID = EmptyID \/ permission = NilPermission
    THEN FALSE
    ELSE IF lookup = "not_found"
    THEN FALSE
    ELSE IF lookup = "error"
    THEN FALSE
    ELSE LET schemes == WithMinimumRole(member)
         IN  CASE permission \in {PermissionManageBoardType, PermissionDeleteBoard,
                                  PermissionManageBoardRoles, PermissionShareBoard,
                                  PermissionDeleteOthersComments} ->
                      "admin" \in schemes
               [] permission \in {PermissionManageBoardCards,
                                  PermissionManageBoardProperties} ->
                      "editor" \in schemes
               [] permission = PermissionCommentBoardCards ->
                      schemes \cap {"admin", "editor", "commenter"} # {}
               [] permission = PermissionViewBoard ->
                      schemes \cap {"admin", "editor", "commenter", "viewer"} # {}
               [] OTHER -> FALSE

HasPermissionToBoard(userID, boardID, permission, lookup, member) ==
    IF userID = EmptyID \/ boardID = EmptyID \/ permission = NilPermission
    THEN FALSE
    ELSE IF lookup = "not_found"
    THEN FALSE
    ELSE IF lookup = "error"
    THEN FALSE
    ELSE LET schemes == WithMinimumRole(member)
         IN  CASE permission \in {PermissionManageBoardType, PermissionDeleteBoard,
                                  PermissionManageBoardRoles, PermissionShareBoard,
                                  PermissionDeleteOthersComments} ->
                      "admin" \in schemes
               [] permission \in {PermissionManageBoardCards,
                                  PermissionManageBoardProperties} ->
                      schemes \cap {"admin", "editor"} # {}
               [] permission = PermissionCommentBoardCards ->
                      schemes \cap {"admin", "editor", "commenter"} # {}
               [] permission = PermissionViewBoard ->
                      schemes \cap {"admin", "editor", "commenter", "viewer"} # {}
               [] OTHER -> FALSE

\* The member record store.GetMemberForBoard returned (read only when found).
MemberOf(check) == [MinimumRole |-> check.minimumRole, schemes |-> check.schemes]

\* The calls HasPermissionToBoard can receive: every user id, a board id and the
\* empty ones; nil, a board permission or one that is not; the outcomes of
\* store.GetMemberForBoard (the member, model.ErrNotFound, another error); and a
\* member with any MinimumRole and any scheme flags.
BoardCheckInputs ==
    [pc : {"args"},
     userID : Users \cup {EmptyID},
     boardID : {1, EmptyID},
     permission : BoardPermissions \cup {NilPermission, PermissionManageSystem},
     lookup : {"found", "not_found", "error"},
     minimumRole : RoleNames \cup {""},
     schemes : SUBSET RoleNames,
     granted : {FALSE}]

InitBoard ==
    /\ rows = {}
    /\ now = 0
    /\ conns = {}
    /\ events = <<>>
    /\ resp = NoResp
    /\ unpushed = {}
    /\ users = {}
    /\ firstUserID = EmptyID
    /\ firstUserDone = FALSE
    /\ puts = [slot \in Slots |-> IdlePut]
    /\ checks = NoChecks
    /\ client = InitialClient
    /\ card = NoCard
    /\ boardCheck \in BoardCheckInputs

\* One call of HasPermissionToBoard with the arguments of the state.
CheckBoardPermission ==
    /\ boardCheck.pc = "args"
    /\ boardCheck' = [boardCheck EXCEPT
                         !.pc = "done",
                         !.granted = HasPermissionToBoard(boardCheck.userID,
                                         boardCheck.boardID, boardCheck.permission,
                                         boardCheck.lookup, MemberOf(boardCheck))]
    /\ events' = <<>>
    /\ resp' = NoResp
    /\ UNCHANGED <<users, firstUserID, firstUserDone, puts, now, notifVars,
                   checks, client, card>>

SpecBoard == InitBoard /\ [][CheckBoardPermission]_vars

\* ============================================================ web client
\* ------------------------------------------------- store/notifications.ts
\* model.UserNotification as JSON, the UserNotification of octoClient.
ToJSON(row) ==
    [id |-> row.id, targetUserId |-> row.target_user_id,
     actorUserId |-> row.actor_user_id, actorName |-> row.actor_name,
     type |-> row.type, cardId |-> row.card_id, cardTitle |-> row.card_title,
     boardId |-> row.board_id, read |-> row.is_read,
     createAt |-> row.create_at, updateAt |-> row.update_at]

convertFromServer(serverNotif) ==
    [id |-> serverNotif.id, type |-> serverNotif.type,
     cardTitle |-> serverNotif.cardTitle, cardId |-> serverNotif.cardId,
     boardId |-> serverNotif.boardId, memberName |-> serverNotif.actorName,
     memberUsername |-> serverNotif.actorName,
     targetUserId |-> serverNotif.targetUserId, actorName |-> serverNotif.actorName,
     timestamp |-> serverNotif.createAt, read |-> serverNotif.read]

\* Mutant: the list is cut from its front, notifications.slice(-50).
Keep_DropsNewest(notifications) ==
    IF Len(notifications) > MaxKept
    THEN SubSeq(notifications, Len(notifications) - MaxKept + 1, Len(notifications))
    ELSE notifications

\* if (state.notifications.length > 50) state.notifications = slice(0, 50)
Keep(notifications) ==
    IF Len(notifications) > MaxKept
    THEN SubSeq(notifications, 1, MaxKept)
    ELSE notifications

setCurrentUserId(state, payload) == [state EXCEPT !.currentUserId = payload]

\* The id is notif-<Date.now()>-<random>, here the next local number, negative
\* so that it differs from every id of the server.
addNotification(state, payload, t) ==
    LET notification ==
            [id |-> 0 - (state.locals + 1), type |-> payload.type,
             cardTitle |-> payload.cardTitle, cardId |-> payload.cardId,
             boardId |-> payload.boardId, memberName |-> payload.memberName,
             memberUsername |-> payload.memberUsername,
             targetUserId |-> payload.targetUserId, actorName |-> payload.actorName,
             timestamp |-> t, read |-> FALSE]
    IN  [state EXCEPT !.notifications = Keep(<<notification>> \o @),
                      !.currentToast = {notification},
                      !.showToast = TRUE,
                      !.locals = @ + 1]

\* Mutant: the notification is added whether or not its id is in the list.
receiveNotification_NoExistsCheck(state, payload) ==
    LET notification == IF "createAt" \in DOMAIN payload
                        THEN convertFromServer(payload) ELSE payload
    IN  [state EXCEPT !.notifications = Keep(<<notification>> \o @),
                      !.currentToast = {notification},
                      !.showToast = TRUE]

receiveNotification(state, payload) ==
    LET notification == IF "createAt" \in DOMAIN payload
                        THEN convertFromServer(payload) ELSE payload
        exists == \E i \in DOMAIN state.notifications :
                      state.notifications[i].id = notification.id
    IN  IF ~exists
        THEN [state EXCEPT !.notifications = Keep(<<notification>> \o @),
                           !.currentToast = {notification},
                           !.showToast = TRUE]
        ELSE state

dismissToast(state) == [state EXCEPT !.showToast = FALSE, !.currentToast = {}]

clearNotifications(state) == [state EXCEPT !.notifications = <<>>]

fetchNotifications_pending(state) == [state EXCEPT !.loading = TRUE]

fetchNotifications_fulfilled(state, payload) ==
    [state EXCEPT !.loading = FALSE, !.notifications = payload]

fetchNotifications_rejected(state) == [state EXCEPT !.loading = FALSE]

markAllNotificationsRead_fulfilled(state) ==
    [state EXCEPT !.notifications =
        [i \in DOMAIN @ |-> [@[i] EXCEPT !.read = TRUE]]]

\* ------------------------------------------------------------- main.tsx
\* Mutant: every notification the websocket delivers is dispatched.
handleNotification_Unfiltered(state, notification) ==
    [state |-> receiveNotification(state, notification),
     events |-> <<Event("receiveNotification", notification.id,
                        notification.targetUserId, TRUE, "")>>]

\* The handler MainApp registers with wsClient.addOnNotification: the state after
\* it and the actions it dispatched.
handleNotification(state, notification) ==
    IF state.me # EmptyID /\ notification.targetUserId = state.me
    THEN [state |-> receiveNotification(state, notification),
          events |-> <<Event("receiveNotification", notification.id,
                             notification.targetUserId, TRUE, "")>>]
    ELSE [state |-> state, events |-> <<>>]

\* What the web client does not touch: the server and the other components.
serverVars ==
    <<rows, conns, unpushed, now, users, firstUserID, firstUserDone, puts,
      checks, card, boardCheck>>

\* getMe becomes the loaded user; the effect of MainApp dispatches
\* setCurrentUserId(me.id) and registers handleNotification for that user.
LoadUser(u) ==
    /\ client.me = EmptyID
    /\ client' = setCurrentUserId([client EXCEPT !.me = u], u)
    /\ events' = <<Event("setCurrentUserId", EmptyID, u, TRUE, "")>>
    /\ resp' = NoResp
    /\ UNCHANGED serverVars

\* The websocket delivers a notification to the handler.
OnNotification(notification) ==
    LET h == handleNotification(client, notification)
    IN  /\ client' = h.state
        /\ events' = h.events
        /\ resp' = NoResp
        /\ UNCHANGED serverVars

AddNotification(payload) ==
    /\ client.locals < MaxLocals
    /\ client' = addNotification(client, payload, now)
    /\ events' = <<Event("addNotification", 0 - (client.locals + 1),
                         payload.targetUserId, TRUE, "")>>
    /\ resp' = NoResp
    /\ UNCHANGED serverVars

\* MemberNotificationToast closes the toast.
DismissToast ==
    /\ client.showToast
    /\ client' = dismissToast(client)
    /\ events' = <<Event("dismissToast", EmptyID, client.me, TRUE, "")>>
    /\ resp' = NoResp
    /\ UNCHANGED serverVars

\* NotificationBell, handleClearAll.
ClearNotifications ==
    /\ client.notifications # <<>>
    /\ client' = clearNotifications(client)
    /\ events' = <<Event("clearNotifications", EmptyID, client.me, TRUE, "")>>
    /\ resp' = NoResp
    /\ UNCHANGED serverVars

\* NotificationBell on mount and refreshNotifications: if (me?.id)
\* dispatch(fetchNotifications(50)); the thunk dispatches pending and sends
\* GET /notifications?limit=50.
FetchNotifications_Request ==
    /\ client.me # EmptyID
    /\ client.fetch = "idle"
    /\ client' = [fetchNotifications_pending(client) EXCEPT !.fetch = "sent"]
    /\ events' = <<Event("fetchNotifications.pending", EmptyID, client.me, TRUE, "")>>
    /\ resp' = NoResp
    /\ UNCHANGED serverVars

\* The request settles: fulfilled with notifications.map(convertFromServer) of
\* the response, or rejected.
FetchNotifications_Settle(ok, list) ==
    /\ client.fetch \in {"sent", "served", "failed"}
    /\ client' = [(IF ok THEN fetchNotifications_fulfilled(client,
                                [i \in DOMAIN list |-> convertFromServer(list[i])])
                         ELSE fetchNotifications_rejected(client))
                     EXCEPT !.fetch = "idle", !.fetched = <<>>]
    /\ events' = <<Event(IF ok THEN "fetchNotifications.fulfilled"
                               ELSE "fetchNotifications.rejected",
                         EmptyID, client.me, ok, "")>>
    /\ resp' = NoResp
    /\ UNCHANGED serverVars

\* ------------------------------------------- the client against any server
\* Ids of the notifications a server can hold: one more than the client keeps.
ServerIDs == 1..(MaxKept + 1)

\* What a websocket can deliver: a notification of any id for any user.
PushedNotifications ==
    {ToJSON(UserNotification(id, target, 1, read, id, id)) :
        id \in ServerIDs, target \in Users, read \in BOOLEAN}

\* The rows a server can hold for user u: one row per id of any set of ids,
\* read or unread, created one after the other.
ServerTables(u) ==
    UNION {{{UserNotification(id, u, 1, read[id], id, id) : id \in ids} :
               read \in [ids -> BOOLEAN]} :
           ids \in SUBSET ServerIDs}

\* The response bodies of GET /notifications?limit=50, by user.
FetchResponses ==
    [u \in Users |->
        UNION {{[i \in DOMAIN list |-> ToJSON(list[i])] :
                   list \in getUserNotifications(table, u, MaxKept)} :
               table \in ServerTables(u)}]

\* addNotification's payload: a MemberNotification without id, timestamp, read.
LocalPayloads ==
    {[type |-> "assigned", cardTitle |-> "title", cardId |-> "card",
      boardId |-> "board", memberName |-> "actor", memberUsername |-> "actor",
      targetUserId |-> target, actorName |-> "actor"] : target \in Users}

ClientLoadUser == \E u \in Users : LoadUser(u)

\* The slice and the handler against every delivery and every response.
NextClient ==
    \/ ClientLoadUser
    \/ \E notification \in PushedNotifications : OnNotification(notification)
    \/ \E payload \in LocalPayloads : AddNotification(payload)
    \/ DismissToast
    \/ ClearNotifications
    \/ FetchNotifications_Request
    \/ /\ client.fetch = "sent"
       /\ \E list \in FetchResponses[client.me] : FetchNotifications_Settle(TRUE, list)
    \/ /\ client.fetch = "sent"
       /\ FetchNotifications_Settle(FALSE, <<>>)

SpecClient == Init /\ [][NextClient]_vars

\* ---------------------------------------- the client against this server
\* What neither the web client nor the notification handlers touch.
syncFrame ==
    <<now, unpushed, users, firstUserID, firstUserDone, puts, checks, card, boardCheck>>

\* The user is loaded and WithWebSockets opens the websocket for me.id.
OpenSession(u) ==
    /\ client.me = EmptyID
    /\ client' = setCurrentUserId([client EXCEPT !.me = u], u)
    /\ conns' = conns \cup {u}
    /\ events' = <<Event("setCurrentUserId", EmptyID, u, TRUE, "")>>
    /\ resp' = NoResp
    /\ UNCHANGED <<rows, syncFrame>>

\* POST /notifications by any session: handleCreateNotification with a
\* well-formed body; a push that was delivered to the client's user is on the
\* client's websocket.
ServeCreateNotification(body, newID, dbOk, outcome) ==
    LET c == CreateAndBroadcastNotification(rows, conns, body, newID, now, dbOk, outcome)
        delivered == {n \in c.created :
                         /\ n.target_user_id = client.me
                         /\ \E i \in DOMAIN c.events :
                                c.events[i].ev = "broadcast" /\ c.events[i].ok}
    IN  /\ rows' = c.table
        /\ events' = c.events
        /\ resp' = IF c.err
                   THEN Response("createNotification", body.actor_user_id, body.id, "store")
                   ELSE [Response("createNotification", body.actor_user_id, body.id, "none")
                            EXCEPT !.created = c.created]
        /\ client' = [client EXCEPT !.inbox =
                         IF delivered = {} THEN @
                         ELSE Append(@, ToJSON(CHOOSE n \in delivered : TRUE))]
        /\ UNCHANGED <<conns, syncFrame>>

\* wsClient hands the next notification of the websocket to handleNotification.
DeliverNotification ==
    /\ client.inbox # <<>>
    /\ LET h == handleNotification([client EXCEPT !.inbox = Tail(@)], Head(client.inbox))
       IN  /\ client' = h.state
           /\ events' = h.events
    /\ resp' = NoResp
    /\ UNCHANGED <<rows, conns, syncFrame>>

\* NotificationBell, handleMarkAllRead: dispatch(markAllNotificationsRead()); the
\* thunk sends PUT /notifications/read-all.
MarkAllNotificationsRead_Request ==
    /\ client.me # EmptyID
    /\ client.markAll = "idle"
    /\ client' = [client EXCEPT !.markAll = "sent"]
    /\ events' = <<Event("markAllNotificationsRead.pending", EmptyID, client.me, TRUE, "")>>
    /\ resp' = NoResp
    /\ UNCHANGED <<rows, conns, syncFrame>>

\* handleMarkAllAsRead serves the client's request.
MarkAllNotificationsRead_Serve(dbOk) ==
    /\ client.markAll = "sent"
    /\ LET m == markAllNotificationsAsRead(rows, client.me, now, dbOk)
       IN  /\ rows' = m.table
           /\ resp' = Response("markAllNotificationsAsRead", client.me, 0,
                               IF m.err THEN "store" ELSE "none")
           /\ client' = [client EXCEPT !.markAll = IF m.err THEN "failed" ELSE "served"]
    /\ events' = <<Event("updateAll", EmptyID, client.me, dbOk, "")>>
    /\ UNCHANGED <<conns, syncFrame>>

\* The response arrives: the thunk is fulfilled and the slice marks every entry
\* read, or it is rejected and the slice has no case for it.
MarkAllNotificationsRead_Settle ==
    /\ client.markAll \in {"served", "failed"}
    /\ client' = [(IF client.markAll = "served"
                   THEN markAllNotificationsRead_fulfilled(client) ELSE client)
                     EXCEPT !.markAll = "idle"]
    /\ events' = <<Event(IF client.markAll = "served"
                         THEN "markAllNotificationsRead.fulfilled"
                         ELSE "markAllNotificationsRead.rejected",
                         EmptyID, client.me, client.markAll = "served", "")>>
    /\ resp' = NoResp
    /\ UNCHANGED <<rows, conns, syncFrame>>

\* handleGetNotifications serves the client's GET /notifications?limit=50.
FetchNotifications_Serve(dbOk) ==
    /\ client.fetch = "sent"
    /\ IF dbOk
       THEN \E result \in getUserNotifications(rows, client.me, MaxKept) :
                /\ resp' = [Response("getNotifications", client.me, MaxKept, "none")
                               EXCEPT !.list = result]
                /\ client' = [client EXCEPT
                                 !.fetch = "served",
                                 !.fetched = [i \in DOMAIN result |-> ToJSON(result[i])]]
       ELSE /\ resp' = Response("getNotifications", client.me, MaxKept, "store")
            /\ client' = [client EXCEPT !.fetch = "failed"]
    /\ events' = <<Event("select", EmptyID, client.me, dbOk, "int")>>
    /\ UNCHANGED <<rows, conns, syncFrame>>

\* One browser and the server: notifications are created (unread, with the
\* server's id) and pushed while the client fetches its list and marks all as
\* read.
NextSync ==
    \/ \E u \in Users : OpenSession(u)
    \/ \E body \in {b \in Bodies : b.id = EmptyID /\ ~b.is_read}, newID \in NotifIDs,
          dbOk \in BOOLEAN :
           \E outcome \in IF dbOk THEN BroadcastOutcomes ELSE {"delivered"} :
               ServeCreateNotification(body, newID, dbOk, outcome)
    \/ DeliverNotification
    \/ MarkAllNotificationsRead_Request
    \/ \E dbOk \in BOOLEAN : MarkAllNotificationsRead_Serve(dbOk)
    \/ MarkAllNotificationsRead_Settle
    \/ FetchNotifications_Request
    \/ \E dbOk \in BOOLEAN : FetchNotifications_Serve(dbOk)
    \/ /\ client.fetch \in {"served", "failed"}
       /\ FetchNotifications_Settle(client.fetch = "served", client.fetched)

SpecSync == Init /\ [][NextSync]_vars

\* ------------------------------------------- members popup, kanban quick-assign
\* card.fields.properties[personProperty.id] after the toggle of userId: the
\* list without or with userId for multiPerson, '' or userId for person.
NewValue(isMulti, currentMembers, userId) ==
    LET isRemoving == \E i \in DOMAIN currentMembers : currentMembers[i] = userId
    IN  IF isMulti
        THEN IF isRemoving
             THEN SelectSeq(currentMembers, LAMBDA id : id # userId)
             ELSE Append(currentMembers, userId)
        ELSE IF isRemoving THEN <<>> ELSE <<userId>>

\* The argument of createServerNotification.
NotificationRequest(target, actor, type) ==
    [targetUserId |-> target, actorUserId |-> actor, actorName |-> "actor",
     type |-> type, cardId |-> "card", cardTitle |-> "title", boardId |-> "board"]

\* Mutant: the type is taken from the card after the change.
toggleMember_TypeAfterChange(c, me, userId, mutationOk) ==
    IF c.property = "none"
    THEN [card |-> IF mutationOk THEN [c EXCEPT !.property = "multiPerson"] ELSE c,
          events |-> <<Event("insertPropertyTemplate", EmptyID, userId, mutationOk, "")>>,
          requests |-> <<>>]
    ELSE LET isMulti == c.property = "multiPerson"
             currentMembers == c.members
             newValue == NewValue(isMulti, currentMembers, userId)
             isRemoving == \E i \in DOMAIN newValue : newValue[i] = userId
             change == Event("changePropertyValue", EmptyID, userId, mutationOk, "")
         IN  IF ~mutationOk
             THEN [card |-> c, events |-> <<change>>, requests |-> <<>>]
             ELSE IF userId \in c.boardUsers /\ me # EmptyID /\ userId # me
             THEN [card |-> [c EXCEPT !.members = newValue],
                   events |-> <<change,
                                Event("createServerNotification", EmptyID, userId, TRUE,
                                      IF isRemoving THEN "unassigned" ELSE "assigned")>>,
                   requests |-> <<NotificationRequest(userId, me,
                                      IF isRemoving THEN "unassigned" ELSE "assigned")>>]
             ELSE [card |-> [c EXCEPT !.members = newValue],
                   events |-> <<change>>, requests |-> <<>>]

\* MembersPopup.toggleMember: the card after it, the calls it made in order, and
\* the notifications it asked the server to create. mutationOk is whether the
\* awaited mutator call resolved; if it rejects the function ends there.
toggleMember(c, me, userId, mutationOk) ==
    IF c.property = "none"
    THEN [card |-> IF mutationOk THEN [c EXCEPT !.property = "multiPerson"] ELSE c,
          events |-> <<Event("insertPropertyTemplate", EmptyID, userId, mutationOk, "")>>,
          requests |-> <<>>]
    ELSE LET isMulti == c.property = "multiPerson"
             currentMembers == c.members
             isRemoving == \E i \in DOMAIN currentMembers : currentMembers[i] = userId
             newValue == NewValue(isMulti, currentMembers, userId)
             change == Event("changePropertyValue", EmptyID, userId, mutationOk, "")
         IN  IF ~mutationOk
             THEN [card |-> c, events |-> <<change>>, requests |-> <<>>]
             ELSE IF userId \in c.boardUsers /\ me # EmptyID /\ userId # me
             THEN [card |-> [c EXCEPT !.members = newValue],
                   events |-> <<change,
                                Event("createServerNotification", EmptyID, userId, TRUE,
                                      IF isRemoving THEN "unassigned" ELSE "assigned")>>,
                   requests |-> <<NotificationRequest(userId, me,
                                      IF isRemoving THEN "unassigned" ELSE "assigned")>>]
             ELSE [card |-> [c EXCEPT !.members = newValue],
                   events |-> <<change>>, requests |-> <<>>]

\* KanbanCard.toggleQuickAssign: as toggleMember, but without a person property
\* and without an active view it returns at once.
toggleQuickAssign(c, me, userId, activeView, mutationOk) ==
    IF c.property = "none"
    THEN IF ~activeView
         THEN [card |-> c, events |-> <<>>, requests |-> <<>>]
         ELSE [card |-> IF mutationOk THEN [c EXCEPT !.property = "multiPerson"] ELSE c,
               events |-> <<Event("insertPropertyTemplate", EmptyID, userId, mutationOk, "")>>,
               requests |-> <<>>]
    ELSE LET isMulti == c.property = "multiPerson"
             currentMembers == c.members
             isRemoving == \E i \in DOMAIN currentMembers : currentMembers[i] = userId
             newValue == NewValue(isMulti, currentMembers, userId)
             change == Event("changePropertyValue", EmptyID, userId, mutationOk, "")
         IN  IF ~mutationOk
             THEN [card |-> c, events |-> <<change>>, requests |-> <<>>]
             ELSE IF userId \in c.boardUsers /\ me # EmptyID /\ userId # me
             THEN [card |-> [c EXCEPT !.members = newValue],
                   events |-> <<change,
                                Event("createServerNotification", EmptyID, userId, TRUE,
                                      IF isRemoving THEN "unassigned" ELSE "assigned")>>,
                   requests |-> <<NotificationRequest(userId, me,
                                      IF isRemoving THEN "unassigned" ELSE "assigned")>>]
             ELSE [card |-> [c EXCEPT !.members = newValue],
                   events |-> <<change>>, requests |-> <<>>]

\* What a toggle leaves alone: the server and the notifications slice.
cardFrame ==
    <<rows, conns, unpushed, now, users, firstUserID, firstUserDone, puts,
      checks, client, boardCheck>>

\* The state after a toggle: the card, the calls, and in resp who toggled whom
\* and the requests made.
Toggled(op, userId, t) ==
    /\ card' = t.card
    /\ events' = t.events
    /\ resp' = [Response(op, client.me, userId, "none") EXCEPT !.list = t.requests]
    /\ UNCHANGED cardFrame

ToggleMember == \E userId \in Users, mutationOk \in BOOLEAN :
    Toggled("toggleMember", userId, toggleMember(card, client.me, userId, mutationOk))

\* activeView matters only without a person property, and mutationOk only when a
\* mutator call is made.
ToggleQuickAssign == \E userId \in Users, activeView \in BOOLEAN, mutationOk \in BOOLEAN :
    /\ card.property = "none" \/ activeView
    /\ activeView \/ mutationOk
    /\ Toggled("toggleQuickAssign", userId,
               toggleQuickAssign(card, client.me, userId, activeView, mutationOk))

\* getBoardUsers: the users of the board are loaded into the store.
LoadBoardUsers == \E known \in SUBSET Users :
    /\ card.boardUsers = {}
    /\ known # {}
    /\ card' = [card EXCEPT !.boardUsers = known]
    /\ events' = <<>>
    /\ resp' = NoResp
    /\ UNCHANGED cardFrame

\* The board gets a single-person property (the toggles create multiPerson only).
AddPersonProperty ==
    /\ card.property = "none"
    /\ card' = [card EXCEPT !.property = "person"]
    /\ events' = <<>>
    /\ resp' = NoResp
    /\ UNCHANGED cardFrame

NextCard ==
    \/ ClientLoadUser
    \/ LoadBoardUsers
    \/ AddPersonProperty
    \/ ToggleMember
    \/ ToggleQuickAssign

SpecCard == Init /\ [][NextCard]_vars

\* ======================================================================
\* Properties of the permission service under concurrent callers (SpecPerm)
\* ======================================================================
\* C21: over the lifetime of a Service HasPermissionTo calls store.GetAllUsers at
\* most once, also with manage-system checks running side by side, and once a
\* check has returned the cached first user never changes.
C21_LookupOnceAndStable ==
    [][/\ checks'.lookups <= 1
       /\ checks.returned => firstUserID' = firstUserID]_vars

\* C22: HasPermissionTo(userID, PermissionManageSystem) never returns true for
\* the empty userID.
C22_EmptyUserNeverAdmin ==
    (resp.op = "HasPermissionTo" /\ resp.user = EmptyID) => ~resp.granted

\* ======================================================================
\* Properties of HasPermissionToBoard (SpecBoard)
\* ======================================================================
\* Rank of the highest role a member holds, its MinimumRole counted: 0 for none.
RankOf(member) ==
    LET held == {i \in DOMAIN Roles : Roles[i] \in WithMinimumRole(member)}
    IN  IF held = {} THEN 0 ELSE CHOOSE i \in held : \A j \in held : j <= i

\* C23: HasPermissionToBoard is false when userID, boardID or permission is
\* empty, when the user is no member of the board or the lookup fails; what it
\* grants to a member it grants to every member whose highest role (MinimumRole
\* counted) is at least as high; and it grants view-board to every member
\* holding a role.
C23_BoardFailsClosedAndMonotone ==
    boardCheck.pc = "done" =>
        /\ (\/ boardCheck.userID = EmptyID
            \/ boardCheck.boardID = EmptyID
            \/ boardCheck.permission = NilPermission
            \/ boardCheck.lookup # "found") => ~boardCheck.granted
        /\ boardCheck.granted =>
              \A higher \in [MinimumRole : RoleNames \cup {""}, schemes : SUBSET RoleNames] :
                  RankOf(higher) >= RankOf(MemberOf(boardCheck)) =>
                      HasPermissionToBoard(boardCheck.userID, boardCheck.boardID,
                          boardCheck.permission, "found", higher)
        /\ (/\ boardCheck.userID # EmptyID
            /\ boardCheck.boardID # EmptyID
            /\ boardCheck.lookup = "found"
            /\ boardCheck.permission = PermissionViewBoard
            /\ RankOf(MemberOf(boardCheck)) > 0) => boardCheck.granted

\* An editor by MinimumRole alone was granted manage-board-cards.
C23_Witness ==
    /\ boardCheck.pc = "done"
    /\ boardCheck.lookup = "found"
    /\ boardCheck.minimumRole = "editor"
    /\ boardCheck.schemes = {}
    /\ boardCheck.permission = PermissionManageBoardCards
    /\ boardCheck.granted

\* ======================================================================
\* Properties of the web client's notifications slice (SpecClient)
\* ======================================================================
\* The reducers the last step dispatched.
Dispatched(evs) == {evs[i].ev : i \in DOMAIN evs}

\* The ids of a list of notifications.
IdsOf(list) == {list[i].id : i \in DOMAIN list}

\* C24: after any sequence of receiveNotification and fulfilled
\* fetchNotifications no two entries of the list have the same id, and receiving
\* a notification whose id is in the list leaves the list, currentToast and
\* showToast unchanged.
C24_NoDuplicateIds ==
    [][/\ \A i, j \in DOMAIN client'.notifications :
              client'.notifications[i].id = client'.notifications[j].id => i = j
       /\ ("receiveNotification" \in Dispatched(events')
             /\ events'[1].id \in IdsOf(client.notifications))
          => /\ client'.notifications = client.notifications
             /\ client'.currentToast = client.currentToast
             /\ client'.showToast = client.showToast]_vars

\* A notification was received again, with the other read state, while the list
\* holds it and the toast is closed.
C24_Witness ==
    /\ "receiveNotification" \in Dispatched(events)
    /\ \E i \in DOMAIN client.notifications :
          /\ client.notifications[i].id = events[1].id
          /\ i > 1
    /\ ~client.showToast

\* C25: the list never holds more than 50 (MaxKept) entries; addNotification and
\* receiveNotification put the new entry at the front, and what they drop to
\* keep the cap is the end of the old list, never the new entry.
C25_CappedNewestFirst ==
    [][/\ Len(client'.notifications) <= MaxKept
       /\ (\/ "addNotification" \in Dispatched(events')
           \/ ("receiveNotification" \in Dispatched(events')
                 /\ events'[1].id \notin IdsOf(client.notifications)))
          => /\ client'.notifications # <<>>
             /\ client'.notifications[1].id = events'[1].id
             /\ Len(client'.notifications) =
                    IF Len(client.notifications) < MaxKept
                    THEN Len(client.notifications) + 1 ELSE MaxKept
             /\ Tail(client'.notifications) =
                    SubSeq(client.notifications, 1, Len(client'.notifications) - 1)]_vars

\* A notification of the server arrived at a full list: it is first, the list is
\* full, and the notification addNotification had made is no longer in it.
C25_Witness ==
    /\ "receiveNotification" \in Dispatched(events)
    /\ Len(client.notifications) = MaxKept
    /\ client.notifications[1].id = events[1].id
    /\ client.currentToast = {client.notifications[1]}
    /\ client.locals > 0
    /\ \A i \in DOMAIN client.notifications : client.notifications[i].id > 0
    /\ ~client.loading

\* C27: the websocket handler dispatches receiveNotification only when a user is
\* loaded and the notification's targetUserId is that user's id.
C27_OnlyOwnNotificationsReceived ==
    [][\A i \in DOMAIN events' :
          events'[i].ev = "receiveNotification" =>
              /\ client.me # EmptyID
              /\ events'[i].to = client.me]_vars

\* A notification for the loaded user was dispatched and is in the list.
C27_Witness ==
    /\ "receiveNotification" \in Dispatched(events)
    /\ client.me # EmptyID
    /\ events[1].to = client.me
    /\ events[1].id \in IdsOf(client.notifications)

\* ======================================================================
\* Properties of the client and the server together (SpecSync)
\* ======================================================================
\* C26: when markAllNotificationsRead is fulfilled, every notification the
\* client then shows as read is a row with read = true on the server, the
\* notifications created and delivered while the request was in flight included.
C26_ClientReadImpliesServerRead ==
    [][(\E i \in DOMAIN events' : events'[i].ev = "markAllNotificationsRead.fulfilled")
         => \A i \in DOMAIN client'.notifications :
                client'.notifications[i].read =>
                    \E r \in rows' : /\ r.id = client'.notifications[i].id
                                     /\ r.is_read]_vars

\* ======================================================================
\* Properties of the member toggles of a card (SpecCard)
\* ======================================================================
IsToggle(r) == r.op \in {"toggleMember", "toggleQuickAssign"}

\* The members assigned on a card.
Assigned(c) == {c.members[i] : i \in DOMAIN c.members}

\* C28: a toggle of member X on a card with a person property changes the card
\* property first and then requests at most one notification: none when X is
\* the acting user or not a known board user, otherwise exactly one, for X, from
\* the acting user, 'unassigned' when X was assigned before the toggle and
\* 'assigned' when X was not.
C28_ToggleNotifiesTheOtherUser ==
    [][(IsToggle(resp') /\ card.property # "none") =>
        LET X == resp'.arg
            me == resp'.user
            changed == events' # <<>> /\ events'[1].ev = "changePropertyValue"
                           /\ events'[1].ok
        IN  /\ Len(resp'.list) <= 1
            /\ Calls(events', "createServerNotification") # {} =>
                   /\ changed
                   /\ Len(events') = 2
                   /\ events'[2].ev = "createServerNotification"
                   /\ Len(resp'.list) = 1
            /\ changed => (X \in Assigned(card') <=> X \notin Assigned(card))
            /\ (X = me \/ X \notin card.boardUsers) => resp'.list = <<>>
            /\ (changed /\ me # EmptyID /\ X # me /\ X \in card.boardUsers) =>
                   resp'.list =
                       <<NotificationRequest(X, me,
                             IF X \in Assigned(card) THEN "unassigned" ELSE "assigned")>>]_vars

\* The acting user took another known user off a card that keeps a member: one
\* 'unassigned' request for that user.
C28_Witness ==
    /\ IsToggle(resp)
    /\ Len(resp.list) = 1
    /\ resp.list[1].type = "unassigned"
    /\ resp.list[1].targetUserId = resp.arg
    /\ resp.list[1].actorUserId = client.me
    /\ resp.arg \notin Assigned(card)
    /\ client.me \in Assigned(card)

=============================================================================
